---- MODULE Spec2Model ----
(***************************************************************************)
(* Model of electron::Browser (shell/browser/browser.cc): the quit / exit  *)
(* / shutdown state machine, the main-message-loop quit closure and the    *)
(* ready promise.                                                          *)
(*                                                                         *)
(* The program is single threaded.  A Browser method runs to completion    *)
(* except where it calls out to a BrowserObserver; an observer callback    *)
(* may call back into the Browser (nested, synchronous) before it returns. *)
(* The model therefore keeps the C++ call stack: the states TLC sees are   *)
(* those in which the stack is empty (the Browser is idle) or the top of   *)
(* the stack is an observer callback that has not returned yet.  Between   *)
(* two such states the code is deterministic and is executed by Run.       *)
(*                                                                         *)
(* History variables record what the observers, the WindowList and the     *)
(* quit closure get to see: trace holds the events of the current (or, when *)
(* idle, the last) call made by the embedder, on_quit and runs count        *)
(* OnQuit notifications and runs of the quit closure since construction,   *)
(* exit_requested and prior remember what the embedder did earlier.        *)
(***************************************************************************)
EXTENDS Integers, Sequences, FiniteSets, TLC

\* ---------------------------------------------------------------- bounds
MaxObservers == 2      \* observers registered in observers_
MaxNested == 1         \* calls observer callbacks make during one embedder call

\* ------------------------------------------------------------- constants
Null == 0              \* a null base::OnceClosure
QuitClosure == 1       \* the closure that quits the main message loop
NoLoop == -1           \* AtomBrowserMainParts::exit_code_ is a null pointer
NotExited == -1        \* the process has not called exit()
ExitCodes == {7}       \* codes passed to Exit: one that is not the default 0

VARIABLES
  is_quiting_,              \* Browser::is_quiting_
  is_exiting_,              \* Browser::is_exiting_
  is_shutdown_,             \* Browser::is_shutdown_
  is_ready_,                \* Browser::is_ready_
  quit_main_message_loop_,  \* stored closure id, Null when empty
  ready_promise_,           \* "null", "pending" or "resolved"
  observers_,               \* ids of the registered observers, in order
  windows,                  \* WindowList: TRUE when it holds a window
  exit_code_,               \* AtomBrowserMainParts: NoLoop or the code stored
  exited,                   \* code passed to exit(), NotExited while alive
  stack,                    \* call stack, innermost frame last
  trace,                    \* events of the current embedder call, oldest first
  nested,                   \* callback-made calls during this embedder call
  supplied,                 \* the embedder has handed over the quit closure
  on_quit,                  \* per observer, OnQuit notifications received
  runs,                     \* times the quit closure has been run
  exit_requested,           \* Exit has been called with the message loop running
  prior,                    \* what the embedder's previous call amounted to
  armed                     \* the last before-quit round stands, see RoundOver

vars == <<is_quiting_, is_exiting_, is_shutdown_, is_ready_,
          quit_main_message_loop_, ready_promise_, observers_, windows,
          exit_code_, exited, stack, trace, nested, supplied, on_quit, runs,
          exit_requested, prior, armed>>

\* The part of the state the C++ code reads and writes, as one record, so
\* that sequential code composes as function application.
State ==
  [ is_quiting_ |-> is_quiting_, is_exiting_ |-> is_exiting_,
    is_shutdown_ |-> is_shutdown_, is_ready_ |-> is_ready_,
    quit_main_message_loop_ |-> quit_main_message_loop_,
    ready_promise_ |-> ready_promise_, observers_ |-> observers_,
    windows |-> windows, exit_code_ |-> exit_code_, exited |-> exited,
    stack |-> stack, trace |-> trace, on_quit |-> on_quit, runs |-> runs,
    exit_requested |-> exit_requested, prior |-> prior, armed |-> armed ]

Commit(u) ==
  \E s \in {u} :
    /\ is_quiting_' = s.is_quiting_
    /\ is_exiting_' = s.is_exiting_
    /\ is_shutdown_' = s.is_shutdown_
    /\ is_ready_' = s.is_ready_
    /\ quit_main_message_loop_' = s.quit_main_message_loop_
    /\ ready_promise_' = s.ready_promise_
    /\ observers_' = s.observers_
    /\ windows' = s.windows
    /\ exit_code_' = s.exit_code_
    /\ exited' = s.exited
    /\ stack' = s.stack
    /\ trace' = s.trace
    /\ on_quit' = s.on_quit
    /\ runs' = s.runs
    /\ exit_requested' = s.exit_requested
    /\ prior' = s.prior
    /\ armed' = s.armed

\* ------------------------------------------------------------ the history
\* One trace entry.  k is the kind of entry:
\*   "call"        Browser method fn is entered with argument id
\*   "ret"         Browser method fn returns; v is the value of a bool result
\*   "notify"      observer id is called with event fn
\*   "back"        observer id returns from event fn
\*   "round"       a veto round for event fn is over: id observers were
\*                 called and v says whether any of them set *prevent_default
\*   "req"         a request to the WindowList (fn)
\*   "run"         closure id is run
\*   "exit"        exit(id) is called
\* d is the depth of the call stack and lvl the number of observer
\* callbacks on it (0: the entry stems from the embedder's call itself, not
\* from a call some observer made).  q, e, s, w, c, l, x, r, p and a are
\* is_quiting_, is_exiting_, is_shutdown_, windows, quit_main_message_loop_,
\* whether the message loop exists, exit_requested, is_ready_,
\* ready_promise_ and armed, all at that moment.
Level(stk) == IF stk = <<>> THEN 0 ELSE stk[Len(stk)].lvl

Entry(s, k, fn, id, v) ==
  [ k |-> k, fn |-> fn, id |-> id, v |-> v, d |-> Len(s.stack),
    lvl |-> Level(s.stack),
    q |-> s.is_quiting_, e |-> s.is_exiting_, s |-> s.is_shutdown_,
    w |-> s.windows, c |-> s.quit_main_message_loop_,
    l |-> s.exit_code_ # NoLoop, x |-> s.exit_requested,
    r |-> s.is_ready_, p |-> s.ready_promise_, a |-> s.armed ]

Emit(u, k, fn, id, v) ==
  CHOOSE t \in {[s EXCEPT !.trace = Append(@, Entry(s, k, fn, id, v))] : s \in {u}} : TRUE

\* ---------------------------------------------------------- the call stack
\* A frame: the method (or observer event) fn, its program counter, its
\* argument, the locals i (position in observers_) and prevent_default, rv
\* (the bool its callee returned) and, as history, lvl (observer callbacks
\* on the stack up to this frame) and who (observers that vetoed so far).
Frame(fn, pc, arg, lvl) ==
  [ fn |-> fn, pc |-> pc, arg |-> arg, i |-> 1, prevent_default |-> FALSE,
    rv |-> FALSE, lvl |-> lvl, who |-> {} ]

Top(s) == s.stack[Len(s.stack)]

SetTop(s, f) == [s EXCEPT !.stack[Len(s.stack)] = f]

Goto(s, pc) == SetTop(s, [Top(s) EXCEPT !.pc = pc])

\* A call of Browser method fn: its frame is pushed, at its first line.
Call(s, fn, pc, arg) ==
  LET t == Emit(s, "call", fn, arg, FALSE)
  IN [t EXCEPT !.stack = Append(@, Frame(fn, pc, arg, Level(s.stack)))]

\* Return from the method on top of the stack.
Return(s) ==
  LET t == [s EXCEPT !.stack = SubSeq(@, 1, Len(@) - 1)]
  IN Emit(t, "ret", Top(s).fn, Top(s).arg, FALSE)

\* Return of a bool: the value is handed to the caller's frame.
ReturnValue(s, b) ==
  LET t == [s EXCEPT !.stack = SubSeq(@, 1, Len(@) - 1)]
      u == Emit(t, "ret", Top(s).fn, Top(s).arg, b)
  IN SetTop(u, [Top(u) EXCEPT !.rv = b])

\* History only: the veto round run by the frame on top of the stack is over.
\* armed becomes true when a before-quit round ends and no observer has
\* vetoed, false when a before-quit or a will-quit round ends with a veto
\* (and false when OnWindowCloseCancelled is called).
RoundOver(s, ev) ==
  LET vetoed == Top(s).who # {}
      t == Emit(s, "round", ev, Top(s).i - 1, vetoed)
  IN [t EXCEPT !.armed = IF vetoed THEN FALSE
                         ELSE IF ev = "OnBeforeQuit" THEN TRUE ELSE @]

\* ------------------------------------------------- external collaborators
\* WindowList::IsEmpty()
WindowListIsEmpty(s) == ~s.windows

\* WindowList::CloseAllWindows(): asks every window to close; the windows
\* answer later (WindowClosed, CallOnWindowCloseCancelled).
CloseAllWindows(s) == Emit(s, "req", "CloseAllWindows", 0, FALSE)

\* WindowList::DestroyAllWindows(): the windows go away later (WindowClosed).
DestroyAllWindows(s) == Emit(s, "req", "DestroyAllWindows", 0, FALSE)

\* AtomBrowserMainParts::SetExitCode(code): false while there is no message
\* loop to hand the code to, else the code is stored.
SetExitCodeOk(s) == s.exit_code_ # NoLoop

SetExitCode(s, code) == IF SetExitCodeOk(s) THEN [s EXCEPT !.exit_code_ = code] ELSE s

\* exit(code): the process ends here; nothing runs afterwards.
ProcessExit(s, code) == [Emit(s, "exit", "exit", code, FALSE) EXCEPT !.exited = code]

\* std::move(closure).Run(): the closure runs; it does not call the Browser.
RunClosure(s, c) == [Emit(s, "run", "Run", c, FALSE) EXCEPT !.runs = @ + 1]

\* gin_helper::Promise<void>::Resolve(): resolving twice is resolving once.
Resolve(s) == [s EXCEPT !.ready_promise_ = "resolved"]

\* ------------------------------------------------------ observer dispatch
\* The observer loop leaving as soon as *prevent_default is set.
MoreObserversUntilVeto(s) ==
  Top(s).i <= Len(s.observers_) /\ ~Top(s).prevent_default

\* for (BrowserObserver& observer : observers_): is there a next observer?
MoreObservers(s) == Top(s).i <= Len(s.observers_)

\* observer.<ev>(...): control passes to the observer, which may call back.
Notify(s, ev) ==
  LET o == s.observers_[Top(s).i]
      t == Emit(s, "notify", ev, o, FALSE)
  IN [t EXCEPT !.stack = Append(@, Frame(ev, "observer", o, Level(s.stack) + 1)),
               !.on_quit[o] = IF ev = "OnQuit" THEN @ + 1 ELSE @]

InObserver(s) == s.stack # <<>> /\ Top(s).pc = "observer"

\* The observer on top of the stack returns; v says whether it wrote true
\* to *prevent_default (observers never write false to it).  The caller's
\* loop moves on to the next observer.
ObserverBack(s, v) ==
  LET f == Top(s)
      t == [s EXCEPT !.stack = SubSeq(@, 1, Len(@) - 1)]
      u == Emit(t, "back", f.fn, f.arg, FALSE)
      g == Top(u)
  IN SetTop(u, [g EXCEPT !.prevent_default = @ \/ v, !.i = @ + 1,
                         !.who = IF v THEN @ \cup {f.arg} ELSE @])

\* ------------------------------------------------------- Browser methods
\* Each operator executes the next piece of the method whose frame is on
\* top of the stack, up to its next call, callback or return.  The program
\* counter values are the line numbers of browser.cc.

\* bool Browser::HandleBeforeQuit()
HandleBeforeQuit(s) ==
  IF MoreObservers(s) THEN Notify(s, "OnBeforeQuit")
  ELSE ReturnValue(RoundOver(s, "OnBeforeQuit"), ~Top(s).prevent_default)

\* Shutdown without its early return of lines 87-88.
ShutdownNoLatch(s) ==
  LET f == Top(s) IN
  CASE f.pc = "L87" ->
         Goto([s EXCEPT !.is_shutdown_ = TRUE, !.is_quiting_ = TRUE], "L93")
    [] f.pc = "L93" ->
         IF MoreObservers(s) THEN Notify(s, "OnQuit")
         ELSE IF s.quit_main_message_loop_ # Null
              THEN Return(RunClosure([s EXCEPT !.quit_main_message_loop_ = Null],
                                     s.quit_main_message_loop_))
              ELSE Return(s)

\* Shutdown running the closure in place, quit_main_message_loop_.Run(),
\* so that the member keeps it.
ShutdownKeepsClosure(s) ==
  LET f == Top(s) IN
  CASE f.pc = "L87" ->
         IF s.is_shutdown_ THEN Return(s)
         ELSE Goto([s EXCEPT !.is_shutdown_ = TRUE, !.is_quiting_ = TRUE], "L93")
    [] f.pc = "L93" ->
         IF MoreObservers(s) THEN Notify(s, "OnQuit")
         ELSE IF s.quit_main_message_loop_ # Null
              THEN Return(RunClosure(s, s.quit_main_message_loop_))
              ELSE Return(s)

\* void Browser::Shutdown()
Shutdown(s) ==
  LET f == Top(s) IN
  CASE f.pc = "L87" ->
         IF s.is_shutdown_ THEN Return(s)
         ELSE Goto([s EXCEPT !.is_shutdown_ = TRUE, !.is_quiting_ = TRUE], "L93")
    [] f.pc = "L93" ->
         IF MoreObservers(s) THEN Notify(s, "OnQuit")
         ELSE IF s.quit_main_message_loop_ # Null
              THEN Return(RunClosure([s EXCEPT !.quit_main_message_loop_ = Null],
                                     s.quit_main_message_loop_))
              ELSE Return(s)

\* NotifyAndShutdown going on to Shutdown() whatever the observers said.
NotifyAndShutdownIgnoresVeto(s) ==
  LET f == Top(s) IN
  CASE f.pc = "L205" -> IF s.is_shutdown_ THEN Return(s) ELSE Goto(s, "L209")
    [] f.pc = "L209" ->
         IF MoreObservers(s) THEN Notify(s, "OnWillQuit")
         ELSE Call(Goto(RoundOver(s, "OnWillQuit"), "L218"), "Shutdown", "L87", 0)
    [] f.pc = "L218" -> Return(s)

\* NotifyAndShutdown without its early return of lines 205-206.
NotifyAndShutdownNoLatch(s) ==
  LET f == Top(s) IN
  CASE f.pc = "L205" -> Goto(s, "L209")
    [] f.pc = "L209" ->
         IF MoreObservers(s) THEN Notify(s, "OnWillQuit")
         ELSE LET t == RoundOver(s, "OnWillQuit") IN
              IF f.prevent_default
              THEN Return([t EXCEPT !.is_quiting_ = FALSE])
              ELSE Call(Goto(t, "L218"), "Shutdown", "L87", 0)
    [] f.pc = "L218" -> Return(s)

\* void Browser::NotifyAndShutdown()
NotifyAndShutdown(s) ==
  LET f == Top(s) IN
  CASE f.pc = "L205" -> IF s.is_shutdown_ THEN Return(s) ELSE Goto(s, "L209")
    [] f.pc = "L209" ->
         IF MoreObservers(s) THEN Notify(s, "OnWillQuit")
         ELSE LET t == RoundOver(s, "OnWillQuit") IN
              IF f.prevent_default
              THEN Return([t EXCEPT !.is_quiting_ = FALSE])
              ELSE Call(Goto(t, "L218"), "Shutdown", "L87", 0)
    [] f.pc = "L218" -> Return(s)

\* Quit calling Shutdown() where line 56 calls NotifyAndShutdown().
QuitSkipsWillQuit(s) ==
  LET f == Top(s) IN
  CASE f.pc = "L48" ->
         IF s.is_quiting_ THEN Return(s)
         ELSE Call(Goto(s, "L51"), "HandleBeforeQuit", "L222", 0)
    [] f.pc = "L51" ->
         LET t == [s EXCEPT !.is_quiting_ = f.rv] IN
         IF ~t.is_quiting_ THEN Return(t)
         ELSE IF WindowListIsEmpty(t)
              THEN Call(Goto(t, "L59"), "Shutdown", "L87", 0)
              ELSE Return(CloseAllWindows(t))
    [] f.pc = "L59" -> Return(s)

\* Quit going on whatever HandleBeforeQuit() returned.
QuitIgnoresVeto(s) ==
  LET f == Top(s) IN
  CASE f.pc = "L48" ->
         IF s.is_quiting_ THEN Return(s)
         ELSE Call(Goto(s, "L51"), "HandleBeforeQuit", "L222", 0)
    [] f.pc = "L51" ->
         LET t == [s EXCEPT !.is_quiting_ = TRUE] IN
         IF WindowListIsEmpty(t)
         THEN Call(Goto(t, "L59"), "NotifyAndShutdown", "L205", 0)
         ELSE Return(CloseAllWindows(t))
    [] f.pc = "L59" -> Return(s)

\* Quit without its early return of lines 48-49.
QuitNoLatch(s) ==
  LET f == Top(s) IN
  CASE f.pc = "L48" -> Call(Goto(s, "L51"), "HandleBeforeQuit", "L222", 0)
    [] f.pc = "L51" ->
         LET t == [s EXCEPT !.is_quiting_ = f.rv] IN
         IF ~t.is_quiting_ THEN Return(t)
         ELSE IF WindowListIsEmpty(t)
              THEN Call(Goto(t, "L59"), "NotifyAndShutdown", "L205", 0)
              ELSE Return(CloseAllWindows(t))
    [] f.pc = "L59" -> Return(s)

\* void Browser::Quit()
Quit(s) ==
  LET f == Top(s) IN
  CASE f.pc = "L48" ->
         IF s.is_quiting_ THEN Return(s)
         ELSE Call(Goto(s, "L51"), "HandleBeforeQuit", "L222", 0)
    [] f.pc = "L51" ->
         LET t == [s EXCEPT !.is_quiting_ = f.rv] IN
         IF ~t.is_quiting_ THEN Return(t)
         ELSE IF WindowListIsEmpty(t)
              THEN Call(Goto(t, "L59"), "NotifyAndShutdown", "L205", 0)
              ELSE Return(CloseAllWindows(t))
    [] f.pc = "L59" -> Return(s)

\* Exit setting is_quiting_ and is_exiting_ before it looks at SetExitCode.
ExitSetsFlagsFirst(s) ==
  LET f == Top(s) IN
  CASE f.pc = "L65" ->
         LET t == [SetExitCode(s, f.arg) EXCEPT !.is_quiting_ = TRUE,
                                                 !.is_exiting_ = TRUE,
                                                 !.exit_requested = SetExitCodeOk(s)] IN
         IF ~SetExitCodeOk(s) THEN ProcessExit(t, f.arg)
         ELSE IF WindowListIsEmpty(t)
              THEN Call(Goto(t, "L83"), "Shutdown", "L87", 0)
              ELSE Return(DestroyAllWindows(t))
    [] f.pc = "L83" -> Return(s)

\* Exit going through the will-quit round: NotifyAndShutdown() at line 77.
ExitAsksObservers(s) ==
  LET f == Top(s) IN
  CASE f.pc = "L65" ->
         IF ~SetExitCodeOk(s) THEN ProcessExit(s, f.arg)
         ELSE LET t == [SetExitCode(s, f.arg) EXCEPT !.is_quiting_ = TRUE,
                                                      !.is_exiting_ = TRUE,
                                                      !.exit_requested = TRUE] IN
              IF WindowListIsEmpty(t)
              THEN Call(Goto(t, "L83"), "NotifyAndShutdown", "L205", 0)
              ELSE Return(DestroyAllWindows(t))
    [] f.pc = "L83" -> Return(s)

\* void Browser::Exit(args); the frame's arg is the code read from args.
Exit(s) ==
  LET f == Top(s) IN
  CASE f.pc = "L65" ->
         IF ~SetExitCodeOk(s) THEN ProcessExit(s, f.arg)
         ELSE LET t == [SetExitCode(s, f.arg) EXCEPT !.is_quiting_ = TRUE,
                                                      !.is_exiting_ = TRUE,
                                                      !.exit_requested = TRUE] IN
              IF WindowListIsEmpty(t)
              THEN Call(Goto(t, "L83"), "Shutdown", "L87", 0)
              ELSE Return(DestroyAllWindows(t))
    [] f.pc = "L83" -> Return(s)

\* SetMainMessageLoopQuitClosure without the is_shutdown_ test of line 198.
SetMainMessageLoopQuitClosureAlwaysStores(s) ==
  Return([s EXCEPT !.quit_main_message_loop_ = Top(s).arg])

\* void Browser::SetMainMessageLoopQuitClosure(quit_closure); arg is the closure.
SetMainMessageLoopQuitClosure(s) ==
  LET f == Top(s) IN
  IF s.is_shutdown_ THEN Return(RunClosure(s, f.arg))
  ELSE Return([s EXCEPT !.quit_main_message_loop_ = f.arg])

\* OnWindowCloseCancelled leaving is_quiting_ alone.
OnWindowCloseCancelledKeepsQuitting(s) == Return(s)

\* OnWindowCloseCancelled dropping the stored closure with the quit.
OnWindowCloseCancelledDropsClosure(s) ==
  IF s.is_quiting_
  THEN Return([s EXCEPT !.is_quiting_ = FALSE, !.quit_main_message_loop_ = Null])
  ELSE Return(s)

\* OnWindowCloseCancelled calling off an Exit as well: is_exiting_ cleared.
OnWindowCloseCancelledClearsExiting(s) ==
  IF s.is_quiting_
  THEN Return([s EXCEPT !.is_quiting_ = FALSE, !.is_exiting_ = FALSE])
  ELSE Return(s)

\* void Browser::OnWindowCloseCancelled(window)
OnWindowCloseCancelled(s) ==
  IF s.is_quiting_ THEN Return([s EXCEPT !.is_quiting_ = FALSE]) ELSE Return(s)

\* OnWindowAllClosed testing is_quiting_ before is_exiting_.
OnWindowAllClosedQuitFirst(s) ==
  LET f == Top(s) IN
  CASE f.pc = "L236" ->
         IF s.is_quiting_ THEN Call(Goto(s, "L244"), "NotifyAndShutdown", "L205", 0)
         ELSE IF s.is_exiting_
              THEN Call(Goto(s, "L244"), "Shutdown", "L87", 0)
              ELSE Goto(s, "L241")
    [] f.pc = "L241" ->
         IF MoreObservers(s) THEN Notify(s, "OnWindowAllClosed") ELSE Return(s)
    [] f.pc = "L244" -> Return(s)

\* OnWindowAllClosed not resuming a quit: lines 238-239 left out.
OnWindowAllClosedForgetsQuit(s) ==
  LET f == Top(s) IN
  CASE f.pc = "L236" ->
         IF s.is_exiting_ THEN Call(Goto(s, "L244"), "Shutdown", "L87", 0)
         ELSE Goto(s, "L241")
    [] f.pc = "L241" ->
         IF MoreObservers(s) THEN Notify(s, "OnWindowAllClosed") ELSE Return(s)
    [] f.pc = "L244" -> Return(s)

\* OnWindowAllClosed taking every last window closed for the end of a quit.
OnWindowAllClosedAlwaysQuits(s) ==
  LET f == Top(s) IN
  CASE f.pc = "L236" ->
         IF s.is_exiting_ THEN Call(Goto(s, "L244"), "Shutdown", "L87", 0)
         ELSE Call(Goto(s, "L244"), "NotifyAndShutdown", "L205", 0)
    [] f.pc = "L241" ->
         IF MoreObservers(s) THEN Notify(s, "OnWindowAllClosed") ELSE Return(s)
    [] f.pc = "L244" -> Return(s)

\* void Browser::OnWindowAllClosed()
OnWindowAllClosed(s) ==
  LET f == Top(s) IN
  CASE f.pc = "L236" ->
         IF s.is_exiting_ THEN Call(Goto(s, "L244"), "Shutdown", "L87", 0)
         ELSE IF s.is_quiting_
              THEN Call(Goto(s, "L244"), "NotifyAndShutdown", "L205", 0)
              ELSE Goto(s, "L241")
    [] f.pc = "L241" ->
         IF MoreObservers(s) THEN Notify(s, "OnWindowAllClosed") ELSE Return(s)
    [] f.pc = "L244" -> Return(s)

\* void Browser::DidFinishLaunching(launch_info)
DidFinishLaunching(s) ==
  LET f == Top(s) IN
  CASE f.pc = "L161" ->
         LET t == [s EXCEPT !.is_ready_ = TRUE] IN
         Goto(IF t.ready_promise_ # "null" THEN Resolve(t) ELSE t, "L165")
    [] f.pc = "L165" ->
         IF MoreObservers(s) THEN Notify(s, "OnFinishLaunching") ELSE Return(s)

\* WhenReady creating the promise without looking at is_ready().
WhenReadyNoReplay(s) ==
  IF s.ready_promise_ = "null"
  THEN Return([s EXCEPT !.ready_promise_ = "pending"])
  ELSE Return(s)

\* v8::Local<v8::Value> Browser::WhenReady(isolate)
WhenReady(s) ==
  IF s.ready_promise_ = "null"
  THEN LET t == [s EXCEPT !.ready_promise_ = "pending"] IN
       Return(IF t.is_ready_ THEN Resolve(t) ELSE t)
  ELSE Return(s)

\* One piece of the method on top of the stack.
Step(s) ==
  LET fn == Top(s).fn IN
  CASE fn = "Quit" -> Quit(s)
    [] fn = "Exit" -> Exit(s)
    [] fn = "Shutdown" -> Shutdown(s)
    [] fn = "NotifyAndShutdown" -> NotifyAndShutdown(s)
    [] fn = "HandleBeforeQuit" -> HandleBeforeQuit(s)
    [] fn = "SetMainMessageLoopQuitClosure" -> SetMainMessageLoopQuitClosure(s)
    [] fn = "OnWindowCloseCancelled" -> OnWindowCloseCancelled(s)
    [] fn = "OnWindowAllClosed" -> OnWindowAllClosed(s)
    [] fn = "DidFinishLaunching" -> DidFinishLaunching(s)
    [] fn = "WhenReady" -> WhenReady(s)

\* The code runs until the Browser is idle again, an observer has control,
\* or the process has exited.  (The state after each piece is taken from a
\* one-element set, which makes it a value that is computed once.)
RECURSIVE Run(_)
Run(s) ==
  IF s.stack = <<>> \/ InObserver(s) \/ s.exited # NotExited THEN s
  ELSE CHOOSE r \in {Run(t) : t \in {Step(s)}} : TRUE

\* ------------------------------------------------------------------ Init
\* The state after Browser::Browser(): every flag false, no closure, no
\* promise; no window exists yet and the message loop is not running.  The
\* embedder has registered its observers (any number up to MaxObservers).
Init ==
  /\ is_quiting_ = FALSE
  /\ is_exiting_ = FALSE
  /\ is_shutdown_ = FALSE
  /\ is_ready_ = FALSE
  /\ quit_main_message_loop_ = Null
  /\ ready_promise_ = "null"
  /\ observers_ \in {[i \in 1..k |-> i] : k \in 0..MaxObservers}
  /\ windows = FALSE
  /\ exit_code_ = NoLoop
  /\ exited = NotExited
  /\ stack = <<>>
  /\ trace = <<>>
  /\ nested = 0
  /\ supplied = FALSE
  /\ on_quit = [o \in 1..Len(observers_) |-> 0]
  /\ runs = 0
  /\ exit_requested = FALSE
  /\ prior = "none"
  /\ armed = FALSE

\* --------------------------------------------------------------- actions
Idle == stack = <<>>

\* Who may call into the Browser: the embedder while the Browser is idle,
\* or the observer that currently has control.
CanCall ==
  /\ exited = NotExited
  /\ Idle \/ (InObserver(State) /\ nested < MaxNested)

\* History only: what the embedder's call that has just finished amounted to.
\*   "quit"         Quit in which no observer vetoed and which asked the
\*                  WindowList to close the windows
\*   "quit-cancel"  OnWindowCloseCancelled, right after a "quit"
\*   "none"         anything else
Own(tr) == SelectSeq(tr, LAMBDA en : en.lvl = 0)

Summary ==
  LET own == Own(trace)
      n == Len(own)
  IN IF n = 0 THEN "none"
     ELSE IF own[1].fn = "Quit" /\ n >= 2 /\ own[n - 1].fn = "CloseAllWindows"
     THEN "quit"
     ELSE IF own[1].fn = "OnWindowCloseCancelled" /\ prior = "quit"
     THEN "quit-cancel"
     ELSE "none"

\* The state a call starts from: a call by the embedder starts a new trace.
Here == IF Idle THEN [State EXCEPT !.trace = <<>>, !.prior = Summary] ELSE State

Count == nested' = IF Idle THEN 0 ELSE nested + 1

CallQuit ==
  /\ CanCall
  /\ Commit(Run(Call(Here, "Quit", "L48", 0)))
  /\ Count /\ UNCHANGED supplied

CallExit ==
  /\ CanCall
  /\ \E code \in ExitCodes : Commit(Run(Call(Here, "Exit", "L65", code)))
  /\ Count /\ UNCHANGED supplied

CallShutdown ==
  /\ CanCall
  /\ Commit(Run(Call(Here, "Shutdown", "L87", 0)))
  /\ Count /\ UNCHANGED supplied

\* The embedder hands over the closure that quits the main message loop;
\* it does so once in the life of the process.
CallSetMainMessageLoopQuitClosure ==
  /\ CanCall
  /\ ~supplied
  /\ Commit(Run(Call(Here, "SetMainMessageLoopQuitClosure", "L198", QuitClosure)))
  /\ supplied' = TRUE
  /\ Count

CallOnWindowCloseCancelled ==
  /\ CanCall
  /\ windows
  /\ Commit(Run(Call([Here EXCEPT !.armed = FALSE],
                     "OnWindowCloseCancelled", "L229", 0)))
  /\ Count /\ UNCHANGED supplied

CallDidFinishLaunching ==
  /\ CanCall
  /\ Commit(Run(Call(Here, "DidFinishLaunching", "L161", 0)))
  /\ Count /\ UNCHANGED supplied

CallWhenReady ==
  /\ CanCall
  /\ Commit(Run(Call(Here, "WhenReady", "L170", 0)))
  /\ Count /\ UNCHANGED supplied

\* The WindowList counts windows; the Browser only ever learns whether it is
\* empty, so the model keeps just that.  Opening a further window or closing
\* one of several changes nothing the Browser can see.

\* The first window is created, by the embedder or by the observer in control.
WindowOpened ==
  /\ CanCall
  /\ ~windows
  /\ windows' = TRUE
  /\ nested' = IF Idle THEN nested ELSE nested + 1
  /\ UNCHANGED <<is_quiting_, is_exiting_, is_shutdown_, is_ready_,
                 quit_main_message_loop_, ready_promise_, observers_,
                 exit_code_, exited, stack, trace, supplied, on_quit, runs,
                 exit_requested, prior, armed>>

\* The last window is removed from the WindowList, which then calls
\* Browser::OnWindowAllClosed().
WindowClosed ==
  /\ CanCall
  /\ windows
  /\ Commit(Run(Call([Here EXCEPT !.windows = FALSE],
                     "OnWindowAllClosed", "L236", 0)))
  /\ Count /\ UNCHANGED supplied

\* The main message loop is created: AtomBrowserMainParts::exit_code_ now
\* points at the loop's result code.
MessageLoopReady ==
  /\ exited = NotExited
  /\ Idle
  /\ exit_code_ = NoLoop
  /\ exit_code_' = 0
  /\ UNCHANGED <<is_quiting_, is_exiting_, is_shutdown_, is_ready_,
                 quit_main_message_loop_, ready_promise_, observers_, windows,
                 exited, stack, trace, nested, supplied, on_quit, runs,
                 exit_requested, prior, armed>>

\* Events whose callback takes bool* prevent_default.
VetoEvents == {"OnBeforeQuit", "OnWillQuit"}

\* The observer that has control returns.
ObserverReturn ==
  /\ exited = NotExited
  /\ InObserver(State)
  /\ \E v \in BOOLEAN :
       /\ v => Top(State).fn \in VetoEvents
       /\ Commit(Run(ObserverBack(State, v)))
  /\ UNCHANGED <<nested, supplied>>

Next ==
  \/ CallQuit
  \/ CallExit
  \/ CallShutdown
  \/ CallSetMainMessageLoopQuitClosure
  \/ CallOnWindowCloseCancelled
  \/ WindowOpened
  \/ WindowClosed
  \/ MessageLoopReady
  \/ ObserverReturn

Spec == Init /\ [][Next]_vars

\* The machine with the launch sequence.  DidFinishLaunching, WhenReady and
\* OnWindowCloseCancelled are called at any moment and in any order, by the
\* embedder or by the observer in control; the other calls are the
\* embedder's own here (Spec has them made from observer callbacks as well).
NextReady ==
  \/ CallDidFinishLaunching
  \/ CallWhenReady
  \/ Idle /\ CallQuit
  \/ Idle /\ CallExit
  \/ Idle /\ CallShutdown
  \/ Idle /\ CallSetMainMessageLoopQuitClosure
  \/ CallOnWindowCloseCancelled
  \/ Idle /\ WindowOpened
  \/ Idle /\ WindowClosed
  \/ MessageLoopReady
  \/ ObserverReturn

SpecReady == Init /\ [][NextReady]_vars

\* The observer that has control returns, and if it is an OnWillQuit
\* callback it has left *prevent_default alone.
ObserverReturnNoWillQuitVeto ==
  /\ exited = NotExited
  /\ InObserver(State)
  /\ \E v \in BOOLEAN :
       /\ v => Top(State).fn = "OnBeforeQuit"
       /\ Commit(Run(ObserverBack(State, v)))
  /\ UNCHANGED <<nested, supplied>>

\* The last window goes while the Browser is idle.
WindowClosedWhenIdle == Idle /\ WindowClosed

\* A quit that nothing objects to once it is under way: Quit is the only
\* way the embedder ends the application, no window cancels its close, no
\* observer vetoes in a will-quit round and none calls back into the Browser.
NextQuit ==
  \/ Idle /\ CallQuit
  \/ Idle /\ CallSetMainMessageLoopQuitClosure
  \/ Idle /\ WindowOpened
  \/ WindowClosedWhenIdle
  \/ MessageLoopReady
  \/ ObserverReturnNoWillQuitVeto

\* An observer callback is a function call: it returns.  A window that may
\* close does close, and the WindowList then delivers OnWindowAllClosed.
SpecQuit ==
  /\ Init /\ [][NextQuit]_vars
  /\ WF_vars(ObserverReturnNoWillQuitVeto)
  /\ WF_vars(WindowClosedWhenIdle)

\* ------------------------------------------------- reading the history
\* Positions of the trace at which method fn is entered.
Calls(fn) == {j \in 1..Len(trace) : trace[j].k = "call" /\ trace[j].fn = fn}

\* Positions at which the call entered at position j returns (at most one).
Rets(j) ==
  {r \in (j + 1)..Len(trace) :
     /\ trace[r].k = "ret" /\ trace[r].fn = trace[j].fn /\ trace[r].d = trace[j].d
     /\ \A m \in (j + 1)..(r - 1) :
          ~(trace[m].k = "ret" /\ trace[m].fn = trace[j].fn /\ trace[m].d = trace[j].d)}

\* The last position that belongs to the call entered at position j so far.
End(j) ==
  LET rs == Rets(j) IN IF rs = {} THEN Len(trace) ELSE CHOOSE r \in rs : TRUE

\* The flags and the stored closure are the same at positions a and b.
SameFlags(a, b) ==
  /\ trace[a].q = trace[b].q /\ trace[a].e = trace[b].e
  /\ trace[a].s = trace[b].s /\ trace[a].c = trace[b].c

\* What an entry shows to the outside: kind, name and id.
Sigs(tr) == [n \in 1..Len(tr) |-> <<tr[n].k, tr[n].fn, tr[n].id>>]

\* The entries of one full round of event ev over the observers obs.
RoundOf(ev, obs) ==
  [n \in 1..(2 * Len(obs)) |->
     IF n % 2 = 1 THEN <<"notify", ev, obs[(n + 1) \div 2]>>
     ELSE <<"back", ev, obs[n \div 2]>>]

\* The embedder's call is over and it was a call of fn.
Finished(fn) == Idle /\ trace # <<>> /\ trace[1].fn = fn

ShutdownRunning == \E n \in 1..Len(stack) : stack[n].fn = "Shutdown"

\* ------------------------------------------------------------------ C1
\* C1: however shutdown is triggered and however the calls nest, each
\* observer receives OnQuit at most once in total and the quit closure is run
\* at most once; a call of Shutdown() made when is_shutdown_ is already true
\* returns at once: it notifies nobody, runs nothing and changes no flag.
C1_ShutdownOnce ==
  /\ \A o \in DOMAIN on_quit : on_quit[o] <= 1
  /\ runs <= 1
  /\ \A j \in Calls("Shutdown") :
       trace[j].s =>
         /\ trace[j + 1].k = "ret" /\ trace[j + 1].fn = "Shutdown"
         /\ trace[j + 1].d = trace[j].d
         /\ SameFlags(j, j + 1)

\* Shutdown() called a second time from inside the first one's OnQuit round,
\* with two observers and a stored closure: one round and one run all the same.
C1_Witness ==
  /\ Finished("Shutdown")
  /\ Len(observers_) = 2
  /\ \E j \in Calls("Shutdown") : j > 1 /\ trace[j].s /\ trace[j].lvl = 1
  /\ \A o \in DOMAIN on_quit : on_quit[o] = 1
  /\ runs = 1

\* ------------------------------------------------------------------ C2
\* C2: once Exit has been called with the message loop running, every
\* OnWindowAllClosed calls Shutdown() directly, runs no will-quit round of
\* its own, and has is_shutdown_ true when it returns, also when
\* OnWindowCloseCancelled has cleared is_quiting_ in the meantime.
C2_ExitPrecedence ==
  \A j \in Calls("OnWindowAllClosed") :
    trace[j].x =>
      /\ trace[j + 1].k = "call" /\ trace[j + 1].fn = "Shutdown"
      /\ trace[j + 1].d = trace[j].d + 1
      /\ \A m \in j..End(j) :
           ~(trace[m].k = "notify" /\ trace[m].fn = "OnWillQuit"
             /\ trace[m].lvl = trace[j].lvl)
      /\ Rets(j) # {} => trace[End(j)].s

\* Exit left the windows to be destroyed, a cancelled close cleared
\* is_quiting_, and the last window closing still shut the Browser down.
C2_Witness ==
  /\ Finished("OnWindowAllClosed")
  /\ trace[1].x /\ ~trace[1].q /\ ~trace[1].s
  /\ Len(observers_) = 2
  /\ is_shutdown_

\* ------------------------------------------------------------------ C3
\* C3: when the embedder's last three calls are a Quit no observer vetoed
\* that asked the windows to close, then OnWindowCloseCancelled, then
\* OnWindowAllClosed, and Exit was never called with the loop running, then
\* OnWindowAllClosed itself does nothing but notify every observer of
\* OnWindowAllClosed, in order: it calls neither NotifyAndShutdown nor
\* Shutdown, so it runs no will-quit round, and unless an observer called
\* back into the Browser is_shutdown_ is what it was.
C3_CancelledQuitFallsThrough ==
  (Finished("OnWindowAllClosed") /\ prior = "quit-cancel" /\ ~trace[1].x) =>
    /\ Sigs(Own(trace)) =
         <<<<"call", "OnWindowAllClosed", 0>>>>
         \o RoundOf("OnWindowAllClosed", observers_)
         \o <<<<"ret", "OnWindowAllClosed", 0>>>>
    /\ nested = 0 => (trace = Own(trace) /\ is_shutdown_ = trace[1].s)

C3_Witness ==
  /\ Finished("OnWindowAllClosed")
  /\ prior = "quit-cancel" /\ ~trace[1].x
  /\ Len(observers_) = 2
  /\ nested = 0
  /\ ~is_shutdown_ /\ ~is_quiting_

\* ------------------------------------------------------------------ C4
\* C4: the embedder hands over the quit closure once.  Handed over after
\* shutdown, it is run inside SetMainMessageLoopQuitClosure and not stored;
\* handed over before, it is stored and not run.  From then on it is at all
\* times either still stored or has been run exactly once, and it has been
\* run whenever is_shutdown_ is true and Shutdown() has returned.
C4_ContinuationNeverDropped ==
  /\ \A j \in Calls("SetMainMessageLoopQuitClosure") :
       IF trace[j].s
       THEN /\ trace[j + 1].k = "run" /\ trace[j + 1].id = trace[j].id
            /\ trace[j + 1].c = Null
            /\ trace[j + 2].k = "ret" /\ trace[j + 2].c = Null
       ELSE /\ trace[j + 1].k = "ret" /\ trace[j + 1].c = trace[j].id
  /\ supplied =>
       \/ quit_main_message_loop_ = QuitClosure /\ runs = 0
       \/ quit_main_message_loop_ = Null /\ runs = 1
  /\ (supplied /\ is_shutdown_ /\ ~ShutdownRunning) => runs = 1

\* Shutdown() first, the closure afterwards: it has been run on the spot.
C4_Witness ==
  /\ Finished("SetMainMessageLoopQuitClosure")
  /\ trace[1].s
  /\ runs = 1 /\ quit_main_message_loop_ = Null

\* ------------------------------------------------------------------ C5
\* C5 as claimed: whenever is_shutdown_ is true the quit closure has been
\* run exactly once and none is stored.
C5_AsClaimed == is_shutdown_ => (runs = 1 /\ quit_main_message_loop_ = Null)

\* C5 as amended: whenever is_shutdown_ is true and Shutdown() is not still
\* running, no closure is stored, and the quit closure has been run exactly
\* once if the embedder has handed it over and not at all if it has not.
C5_ShutdownSettlesContinuation ==
  (is_shutdown_ /\ ~ShutdownRunning) =>
    /\ quit_main_message_loop_ = Null
    /\ runs = IF supplied THEN 1 ELSE 0

\* The closure was stored and Shutdown() has consumed it.
C5_Witness ==
  /\ Finished("Shutdown")
  /\ ~trace[1].s /\ trace[1].c = QuitClosure
  /\ is_shutdown_ /\ runs = 1 /\ quit_main_message_loop_ = Null

\* ------------------------------------------------------------------ C6
\* C6 as claimed: once is_shutdown_ is true, Quit, Exit (message loop
\* running), Shutdown, OnWindowCloseCancelled and OnWindowAllClosed return
\* at once, having changed no flag, notified no observer and asked nothing
\* of the WindowList.
TerminalCalls ==
  {"Quit", "Exit", "Shutdown", "OnWindowCloseCancelled", "OnWindowAllClosed"}

C6_AsClaimed ==
  \A j \in 1..Len(trace) :
    (trace[j].k = "call" /\ trace[j].fn \in TerminalCalls /\ trace[j].s /\ trace[j].l) =>
      /\ trace[j + 1].k = "ret" /\ trace[j + 1].fn = trace[j].fn
      /\ SameFlags(j, j + 1)

\* ------------------------------------------------------------------ C7
\* The position at which the method running the round that ends at
\* position j was entered.
RoundStart(j) ==
  LET cs == {c \in 1..(j - 1) : trace[c].k = "call" /\ trace[c].d = trace[j].d - 1}
  IN CHOOSE c \in cs : \A m \in cs : m <= c

\* The notifications of the round that ends at position j.
RoundEntries(j) ==
  SelectSeq(SubSeq(trace, RoundStart(j) + 1, j - 1),
            LAMBDA en : en.d = trace[j].d /\ en.k \in {"notify", "back"})

\* C7: a before-quit round and a will-quit round call every registered
\* observer, in registration order, whatever the earlier ones answered; the
\* code's prevent_default is true exactly when some observer set it;
\* HandleBeforeQuit returns its negation, and NotifyAndShutdown clears
\* is_quiting_ and returns when it is true and calls Shutdown() when not.
C7_VetoRound ==
  /\ \A n \in 1..Len(stack) :
       stack[n].fn \in {"HandleBeforeQuit", "NotifyAndShutdown"} =>
         stack[n].prevent_default = (stack[n].who # {})
  /\ \A j \in 1..Len(trace) :
       trace[j].k = "round" =>
         /\ trace[j].id = Len(observers_)
         /\ Sigs(RoundEntries(j)) = RoundOf(trace[j].fn, observers_)
         /\ trace[j].fn = "OnBeforeQuit" =>
              /\ trace[j + 1].k = "ret" /\ trace[j + 1].fn = "HandleBeforeQuit"
              /\ trace[j + 1].v = ~trace[j].v
         /\ trace[j].fn = "OnWillQuit" =>
              IF trace[j].v
              THEN /\ trace[j + 1].k = "ret" /\ trace[j + 1].fn = "NotifyAndShutdown"
                   /\ ~trace[j + 1].q
              ELSE trace[j + 1].k = "call" /\ trace[j + 1].fn = "Shutdown"

\* Two observers, a vetoed before-quit round: both were called and
\* HandleBeforeQuit returned false, so Quit left is_quiting_ false.
C7_Witness ==
  /\ Finished("Quit")
  /\ Len(observers_) = 2
  /\ nested = 0
  /\ \E j \in 1..Len(trace) :
       /\ trace[j].k = "round" /\ trace[j].fn = "OnBeforeQuit"
       /\ trace[j].v /\ trace[j].id = 2
       /\ ~trace[j + 1].v
  /\ ~is_quiting_

\* ------------------------------------------------------------------ C8
NoVeto == \A j \in 1..Len(trace) : trace[j].k = "round" => ~trace[j].v

\* What the outside sees of a Quit that runs through to the end, with the
\* observers obs and the stored closure c (Null: none).
FullQuit(obs, c) ==
  <<<<"call", "Quit", 0>>, <<"call", "HandleBeforeQuit", 0>>>>
  \o RoundOf("OnBeforeQuit", obs)
  \o <<<<"round", "OnBeforeQuit", Len(obs)>>, <<"ret", "HandleBeforeQuit", 0>>,
       <<"call", "NotifyAndShutdown", 0>>>>
  \o RoundOf("OnWillQuit", obs)
  \o <<<<"round", "OnWillQuit", Len(obs)>>, <<"call", "Shutdown", 0>>>>
  \o RoundOf("OnQuit", obs)
  \o (IF c = Null THEN <<>> ELSE <<<<"run", "Run", c>>>>)
  \o <<<<"ret", "Shutdown", 0>>, <<"ret", "NotifyAndShutdown", 0>>,
       <<"ret", "Quit", 0>>>>

\* C8: Quit called by the embedder with is_quiting_ and is_shutdown_ false
\* and no window open, when no observer vetoes (nor calls back into the
\* Browser), runs to the end before it returns: one before-quit round, then
\* one will-quit round, then one OnQuit round, then the stored closure, if
\* any, exactly once; is_shutdown_ and is_quiting_ are true on return.
C8_QuitRunsToShutdown ==
  (Finished("Quit") /\ ~trace[1].q /\ ~trace[1].s /\ ~trace[1].w
     /\ nested = 0 /\ NoVeto) =>
    /\ Sigs(trace) = FullQuit(observers_, trace[1].c)
    /\ is_shutdown_ /\ is_quiting_
    /\ quit_main_message_loop_ = Null
    /\ runs = IF trace[1].c = Null THEN 0 ELSE 1

C8_Witness ==
  /\ Finished("Quit") /\ ~trace[1].q /\ ~trace[1].s /\ ~trace[1].w
  /\ nested = 0 /\ NoVeto
  /\ Len(observers_) = 2
  /\ trace[1].c = QuitClosure
  /\ is_shutdown_ /\ runs = 1

\* ------------------------------------------------------------------ C9
WillQuitVetoes ==
  {j \in 1..Len(trace) : trace[j].k = "round" /\ trace[j].fn = "OnWillQuit" /\ trace[j].v}

\* C9: a vetoed will-quit round makes NotifyAndShutdown clear is_quiting_
\* and return at once: is_shutdown_, is_exiting_ and the stored closure are
\* left as they are, no OnQuit is sent and the closure is not run.  When the
\* embedder's call ends that way (and no observer called back into the
\* Browser), is_shutdown_ and is_quiting_ are false on return.  A Quit that
\* finds is_quiting_ false always starts a before-quit round.
C9_WillQuitVetoCancels ==
  /\ \A j \in WillQuitVetoes :
       /\ trace[j + 1].k = "ret" /\ trace[j + 1].fn = "NotifyAndShutdown"
       /\ ~trace[j + 1].q
       /\ trace[j + 1].s = trace[j].s /\ trace[j + 1].e = trace[j].e
       /\ trace[j + 1].c = trace[j].c
  /\ (Idle /\ nested = 0 /\ WillQuitVetoes # {}) =>
       /\ ~is_shutdown_ /\ ~is_quiting_
       /\ quit_main_message_loop_ = trace[1].c
       /\ \A m \in 1..Len(trace) :
            ~(trace[m].k = "notify" /\ trace[m].fn = "OnQuit") /\ trace[m].k # "run"
  /\ \A j \in Calls("Quit") :
       ~trace[j].q =>
         /\ trace[j + 1].k = "call" /\ trace[j + 1].fn = "HandleBeforeQuit"
         /\ Len(observers_) > 0 =>
              (trace[j + 2].k = "notify" /\ trace[j + 2].fn = "OnBeforeQuit")

\* The last window has closed during a quit, an observer vetoed in the
\* will-quit round: the quit is off and the stored closure untouched.
C9_Witness ==
  /\ Finished("OnWindowAllClosed")
  /\ nested = 0 /\ WillQuitVetoes # {}
  /\ Len(observers_) = 2
  /\ trace[1].q /\ trace[1].c = QuitClosure
  /\ ~is_quiting_ /\ quit_main_message_loop_ = QuitClosure /\ runs = 0

\* ----------------------------------------------------------------- C10
\* C10: Exit(code) while there is no message loop calls exit(code) with
\* that very code and does nothing before it: no flag and no stored closure
\* changes, no observer is notified, nothing is asked of the WindowList.
\* The process exits in no other way.
C10_ExitWithoutLoop ==
  /\ \A j \in Calls("Exit") :
       ~trace[j].l =>
         /\ Len(trace) = j + 1
         /\ trace[j + 1].k = "exit" /\ trace[j + 1].id = trace[j].id
         /\ SameFlags(j, j + 1)
         /\ exited = trace[j].id
         /\ is_quiting_ = trace[j].q /\ is_exiting_ = trace[j].e
         /\ is_shutdown_ = trace[j].s /\ quit_main_message_loop_ = trace[j].c
  /\ exited # NotExited =>
       /\ Len(trace) >= 2
       /\ trace[Len(trace)].k = "exit"
       /\ trace[Len(trace) - 1].k = "call" /\ trace[Len(trace) - 1].fn = "Exit"
       /\ ~trace[Len(trace) - 1].l

\* Exit(7) before the message loop exists, with a closure stored and two
\* observers registered.
C10_Witness ==
  /\ exited = 7
  /\ Len(trace) = 2 /\ trace[1].fn = "Exit" /\ trace[1].id = 7
  /\ Len(observers_) = 2
  /\ quit_main_message_loop_ = QuitClosure /\ runs = 0

\* ----------------------------------------------------------------- C11
\* C11: whenever the ready promise exists it is resolved exactly when
\* is_ready_ is true, in whatever order WhenReady and DidFinishLaunching
\* were called.  WhenReady returns with the promise created, resolved iff
\* is_ready_ was true at the call, and does not change is_ready_;
\* DidFinishLaunching has set is_ready_ and resolved an existing promise
\* before it notifies the first observer.
C11_ReadySignalReplay ==
  /\ ready_promise_ # "null" => (ready_promise_ = "resolved" <=> is_ready_)
  /\ \A j \in Calls("WhenReady") :
       /\ trace[j + 1].k = "ret" /\ trace[j + 1].fn = "WhenReady"
       /\ trace[j + 1].p # "null"
       /\ (trace[j + 1].p = "resolved") = trace[j].r
       /\ trace[j + 1].r = trace[j].r
  /\ \A j \in Calls("DidFinishLaunching") :
       /\ trace[j + 1].r
       /\ trace[j].p # "null" => trace[j + 1].p = "resolved"
       /\ trace[j].p = "null" => trace[j + 1].p = "null"

\* DidFinishLaunching first, WhenReady afterwards: the promise is created
\* and is resolved when WhenReady returns.
C11_Witness ==
  /\ Finished("WhenReady")
  /\ trace[1].r /\ trace[1].p = "null"
  /\ ready_promise_ = "resolved" /\ is_ready_

\* ----------------------------------------------------------------- C12
\* C12: a call of Quit() that finds is_quiting_ true returns at once: it
\* notifies no observer, asks nothing of the WindowList and changes no flag.
\* So when the embedder calls Quit() right after a Quit() that no observer
\* vetoed and that asked the windows to close, the second call adds neither
\* a before-quit round nor a CloseAllWindows request to those of the first.
C12_QuitIdempotent ==
  /\ \A j \in Calls("Quit") :
       trace[j].q =>
         /\ trace[j + 1].k = "ret" /\ trace[j + 1].fn = "Quit"
         /\ trace[j + 1].d = trace[j].d
         /\ SameFlags(j, j + 1)
         /\ trace[j + 1].w = trace[j].w
  /\ (Finished("Quit") /\ prior = "quit") =>
       /\ trace[1].q
       /\ Sigs(trace) = <<<<"call", "Quit", 0>>, <<"ret", "Quit", 0>>>>
       /\ is_quiting_

\* Quit() twice in a row with a window open and two observers.
C12_Witness ==
  /\ Finished("Quit") /\ prior = "quit"
  /\ Len(observers_) = 2
  /\ windows /\ is_quiting_ /\ ~is_shutdown_ /\ ~is_exiting_
  /\ Len(trace) = 2

\* ----------------------------------------------------------------- C13
\* C13: Exit called while the message loop exists sets is_quiting_ and
\* is_exiting_ whatever they were, and sends neither OnBeforeQuit nor
\* OnWillQuit nor a CloseAllWindows request.  With no window open it calls
\* Shutdown() directly and is_shutdown_ is true when Exit returns; with a
\* window open it asks the WindowList to destroy all windows and returns,
\* is_shutdown_ being what it was.
C13_ExitNotCancelable ==
  \A j \in Calls("Exit") :
    trace[j].l =>
      /\ trace[j + 1].q /\ trace[j + 1].e
      /\ \A m \in j..End(j) :
           trace[m].lvl = trace[j].lvl =>
             /\ ~(trace[m].k = "notify" /\ trace[m].fn \in VetoEvents)
             /\ ~(trace[m].k = "req" /\ trace[m].fn = "CloseAllWindows")
      /\ IF trace[j].w
         THEN /\ trace[j + 1].k = "req" /\ trace[j + 1].fn = "DestroyAllWindows"
              /\ trace[j + 2].k = "ret" /\ trace[j + 2].fn = "Exit"
              /\ trace[j + 2].q /\ trace[j + 2].e
              /\ trace[j + 2].s = trace[j].s
         ELSE /\ trace[j + 1].k = "call" /\ trace[j + 1].fn = "Shutdown"
              /\ trace[j + 1].d = trace[j].d + 1
              /\ Rets(j) # {} => (trace[End(j)].s /\ trace[End(j)].e)

\* Exit with the loop running, no window, two observers: shut down on return.
C13_Witness ==
  /\ Finished("Exit")
  /\ trace[1].l /\ ~trace[1].w /\ ~trace[1].q /\ ~trace[1].s
  /\ Len(observers_) = 2
  /\ is_shutdown_ /\ is_exiting_ /\ is_quiting_
  /\ \A o \in DOMAIN on_quit : on_quit[o] = 1

\* ----------------------------------------------------------------- C14
\* From one trace entry to the next is_exiting_ and is_shutdown_ never go
\* from true to false; is_exiting_ goes from false to true only right after
\* Exit is entered with the message loop in place, is_shutdown_ only right
\* after Shutdown is entered.
TraceLatches ==
  \A m \in 1..(Len(trace) - 1) :
    /\ trace[m].e => trace[m + 1].e
    /\ trace[m].s => trace[m + 1].s
    /\ (~trace[m].e /\ trace[m + 1].e) =>
         (trace[m].k = "call" /\ trace[m].fn = "Exit" /\ trace[m].l)
    /\ (~trace[m].s /\ trace[m + 1].s) =>
         (trace[m].k = "call" /\ trace[m].fn = "Shutdown")

\* The first entry a step adds to the trace: the one after the old trace
\* when the step continues the embedder's call, the first one otherwise.
FirstNew == IF Len(trace') > Len(trace) /\ SubSeq(trace', 1, Len(trace)) = trace
            THEN Len(trace) + 1 ELSE 1

\* C14: no step takes is_exiting_ or is_shutdown_ from true to false.  What
\* a step changes it changes between trace entries: the first entry it adds
\* shows the two flags as they were and the last one as they are now, and
\* in between is_exiting_ becomes true only in Exit past SetExitCode and
\* is_shutdown_ only in Shutdown.
C14_Latches ==
  [][/\ is_exiting_ => is_exiting_'
     /\ is_shutdown_ => is_shutdown_'
     /\ TraceLatches'
     /\ trace' = trace => (is_exiting_' = is_exiting_ /\ is_shutdown_' = is_shutdown_)
     /\ trace' # trace =>
          /\ trace'[FirstNew].e = is_exiting_
          /\ trace'[FirstNew].s = is_shutdown_
          /\ trace'[Len(trace')].e = is_exiting_'
          /\ trace'[Len(trace')].s = is_shutdown_']_vars

\* After Exit and Shutdown a cancelled close clears is_quiting_, and only it.
C14_Witness ==
  /\ Finished("OnWindowCloseCancelled")
  /\ trace[1].q /\ trace[1].e /\ trace[1].s
  /\ ~is_quiting_ /\ is_exiting_ /\ is_shutdown_

\* ----------------------------------------------------------------- C15
\* The ends of the before-quit rounds run by the call of Quit entered at
\* position j itself (not by a call some observer made meanwhile).
BeforeQuitRounds(j) ==
  {m \in j..End(j) :
     /\ trace[m].k = "round" /\ trace[m].fn = "OnBeforeQuit"
     /\ trace[m].d = trace[j].d + 2 /\ trace[m].lvl = trace[j].lvl}

\* The embedder's own call ran a before-quit round and an observer vetoed.
BeforeQuitVetoed == \E m \in BeforeQuitRounds(1) : trace[m].v

\* The ends of the before-quit rounds in which some observer vetoed.
VetoedBeforeQuitRounds ==
  {m \in 1..Len(trace) :
     trace[m].k = "round" /\ trace[m].fn = "OnBeforeQuit" /\ trace[m].v}

\* What the outside sees of a Quit stopped by the before-quit round.
VetoedQuit(obs) ==
  <<<<"call", "Quit", 0>>, <<"call", "HandleBeforeQuit", 0>>>>
  \o RoundOf("OnBeforeQuit", obs)
  \o <<<<"round", "OnBeforeQuit", Len(obs)>>, <<"ret", "HandleBeforeQuit", 0>>,
       <<"ret", "Quit", 0>>>>

\* C15: when some observer sets *prevent_default in the before-quit round
\* of a Quit, HandleBeforeQuit returns false and Quit returns right after
\* it with is_quiting_ false: Quit itself sends no request to the
\* WindowList, no OnWillQuit and no OnQuit and runs no closure, and
\* is_shutdown_, is_exiting_ and the stored closure are on return what they
\* were at the end of the round.  When no observer called back into the
\* Browser they are what they were when Quit was called.
C15_BeforeQuitVetoStops ==
  /\ \A m \in VetoedBeforeQuitRounds :
       \* HandleBeforeQuit runs the round and Quit is its only caller
       \E j \in {RoundStart(m) - 1} :
         /\ trace[j].k = "call" /\ trace[j].fn = "Quit"
         /\ trace[j].d = trace[m].d - 2 /\ trace[j].lvl = trace[m].lvl
         /\ trace[j + 1].fn = "HandleBeforeQuit"
         /\ ~trace[j].q
         /\ trace[m + 1].k = "ret" /\ trace[m + 1].fn = "HandleBeforeQuit"
         /\ ~trace[m + 1].v
         /\ trace[m + 2].k = "ret" /\ trace[m + 2].fn = "Quit"
         /\ trace[m + 2].d = trace[j].d
         /\ ~trace[m + 2].q
         /\ trace[m + 2].s = trace[m].s /\ trace[m + 2].e = trace[m].e
         /\ trace[m + 2].c = trace[m].c
         /\ \A n \in j..(m + 2) :
              trace[n].lvl = trace[j].lvl =>
                /\ trace[n].k \notin {"req", "run"}
                /\ ~(trace[n].k = "notify" /\ trace[n].fn \in {"OnWillQuit", "OnQuit"})
  /\ (Finished("Quit") /\ nested = 0 /\ BeforeQuitVetoed) =>
       /\ Sigs(trace) = VetoedQuit(observers_)
       /\ ~is_quiting_
       /\ is_shutdown_ = trace[1].s /\ is_exiting_ = trace[1].e
       /\ quit_main_message_loop_ = trace[1].c

\* A window is open, two observers, a veto: Quit returns with nothing done.
C15_Witness ==
  /\ Finished("Quit") /\ nested = 0 /\ BeforeQuitVetoed
  /\ trace[1].w /\ trace[1].c = QuitClosure
  /\ Len(observers_) = 2
  /\ ~is_quiting_ /\ ~is_shutdown_ /\ windows

\* ----------------------------------------------------------------- C16
IsPrefix(a, b) == Len(a) <= Len(b) /\ a = SubSeq(b, 1, Len(a))

\* The entries of the call entered at position j that stem from that call
\* itself, not from calls observers made meanwhile.
OwnOf(j) ==
  SelectSeq(SubSeq(trace, j, End(j)), LAMBDA en : en.lvl = trace[j].lvl)

\* What the outside sees of an OnWindowAllClosed that only notifies.
PlainAllClosed(obs) ==
  <<<<"call", "OnWindowAllClosed", 0>>>>
  \o RoundOf("OnWindowAllClosed", obs)
  \o <<<<"ret", "OnWindowAllClosed", 0>>>>

\* C16: OnWindowAllClosed entered with is_exiting_ and is_quiting_ false
\* notifies every observer of OnWindowAllClosed once, in order, and does
\* nothing else: it calls neither NotifyAndShutdown nor Shutdown, so it runs
\* no veto round and no OnQuit round and touches no closure.  When no
\* observer called back into the Browser, is_quiting_, is_exiting_,
\* is_shutdown_ and the stored closure are on return what they were, and
\* the closure has not been run.
C16_IdleNotification ==
  /\ \A j \in Calls("OnWindowAllClosed") :
       (~trace[j].e /\ ~trace[j].q) =>
         LET own == Sigs(OwnOf(j))
             plain == PlainAllClosed(observers_)
         IN /\ IsPrefix(own, plain)
            /\ Rets(j) # {} => own = plain
  /\ (Finished("OnWindowAllClosed") /\ nested = 0 /\ ~trace[1].e /\ ~trace[1].q) =>
       /\ Sigs(trace) = PlainAllClosed(observers_)
       /\ \A m \in 1..Len(trace) : SameFlags(1, m)
       /\ is_quiting_ = trace[1].q /\ is_exiting_ = trace[1].e
       /\ is_shutdown_ = trace[1].s
       /\ quit_main_message_loop_ = trace[1].c

\* The last window closes while nobody is quitting; a closure is stored.
C16_Witness ==
  /\ Finished("OnWindowAllClosed") /\ nested = 0
  /\ ~trace[1].e /\ ~trace[1].q /\ ~trace[1].s
  /\ trace[1].c = QuitClosure
  /\ Len(observers_) = 2
  /\ quit_main_message_loop_ = QuitClosure /\ runs = 0
  /\ ~is_quiting_ /\ ~is_exiting_ /\ ~is_shutdown_

\* ----------------------------------------------------------------- C17
\* C17: OnWindowCloseCancelled, in whatever state it is called, returns at
\* once with is_quiting_ false; is_exiting_, is_shutdown_, is_ready_, the
\* stored closure, the ready promise and the WindowList are what they were,
\* no observer is notified and nothing is asked of the WindowList.
C17_CancelOnlyTouchesQuitting ==
  /\ \A j \in Calls("OnWindowCloseCancelled") :
       /\ trace[j + 1].k = "ret" /\ trace[j + 1].fn = "OnWindowCloseCancelled"
       /\ trace[j + 1].d = trace[j].d
       /\ ~trace[j + 1].q
       /\ trace[j + 1].e = trace[j].e /\ trace[j + 1].s = trace[j].s
       /\ trace[j + 1].c = trace[j].c /\ trace[j + 1].w = trace[j].w
       /\ trace[j + 1].r = trace[j].r /\ trace[j + 1].p = trace[j].p
  /\ Finished("OnWindowCloseCancelled") =>
       /\ Len(trace) = 2
       /\ ~is_quiting_
       /\ is_exiting_ = trace[1].e /\ is_shutdown_ = trace[1].s
       /\ is_ready_ = trace[1].r /\ ready_promise_ = trace[1].p
       /\ quit_main_message_loop_ = trace[1].c

\* Launched, promise resolved, closure stored, Exit under way with a window
\* still open: the cancelled close clears is_quiting_ and nothing else.
C17_Witness ==
  /\ Finished("OnWindowCloseCancelled")
  /\ trace[1].q /\ trace[1].e /\ ~trace[1].s
  /\ trace[1].r /\ trace[1].p = "resolved" /\ trace[1].c = QuitClosure
  /\ ~is_quiting_ /\ is_exiting_ /\ is_ready_ /\ ready_promise_ = "resolved"
  /\ quit_main_message_loop_ = QuitClosure

\* ----------------------------------------------------------------- C18
\* The notification whose callback made the call entered at position j
\* (j is a call made by an observer: trace[j].lvl > 0).
Caller(j) ==
  CHOOSE m \in 1..(j - 1) :
    /\ trace[m].k = "notify" /\ trace[m].lvl = trace[j].lvl - 1
    /\ \A n \in (m + 1)..(j - 1) :
         ~(trace[n].k = "notify" /\ trace[n].lvl = trace[j].lvl - 1)

\* Calls of Quit made from inside an OnBeforeQuit callback.
ReentrantQuits ==
  {j \in Calls("Quit") : trace[j].lvl > 0 /\ trace[Caller(j)].fn = "OnBeforeQuit"}

\* The embedder called Quit and the observers called nothing but Quit.
OnlyQuitCalled ==
  /\ trace # <<>> /\ trace[1].fn = "Quit"
  /\ \A j \in 1..Len(trace) :
       (trace[j].k = "call" /\ trace[j].lvl > 0
          /\ trace[j].d = trace[Caller(j)].d + 1) =>
         trace[j].fn = "Quit"

Times(P(_)) == Cardinality({j \in 1..Len(trace) : P(trace[j])})

\* C18 as claimed: a Quit called from inside an OnBeforeQuit callback
\* returns at once, having notified nobody, asked nothing of the WindowList
\* and changed no flag; so in one quit attempt every observer receives
\* OnBeforeQuit at most once and at most one CloseAllWindows is requested.
C18_AsClaimed ==
  /\ \A j \in ReentrantQuits :
       /\ trace[j + 1].k = "ret" /\ trace[j + 1].fn = "Quit"
       /\ SameFlags(j, j + 1)
  /\ (OnlyQuitCalled /\ ~trace[1].q) =>
       /\ \A o \in 1..Len(observers_) :
            Times(LAMBDA en : en.k = "notify" /\ en.fn = "OnBeforeQuit" /\ en.id = o) <= 1
       /\ Times(LAMBDA en : en.k = "req" /\ en.fn = "CloseAllWindows") <= 1

\* ----------------------------------------------------------------- C19
\* A quit is under way and waits for the windows: Quit has asked the
\* WindowList to close them and has returned.
QuitPending == Idle /\ is_quiting_ /\ ~is_shutdown_ /\ windows

\* C19: when no window cancels its close and no observer vetoes the
\* will-quit round, a quit that waits for the windows leads to shutdown once
\* the WindowList delivers OnWindowAllClosed, and a closure handed over by
\* then is run; every step other than that delivery leaves the Browser
\* waiting, is_quiting_ true and is_shutdown_ false.
C19_QuitCompletes ==
  /\ QuitPending ~> is_shutdown_
  /\ (QuitPending /\ supplied) ~> (runs = 1)
  /\ [][(QuitPending /\ windows') => QuitPending']_vars

\* The last window has closed, the quit went through: a closure handed over
\* before has been run.
C19_Witness ==
  /\ Finished("OnWindowAllClosed")
  /\ prior = "quit" /\ trace[1].q /\ ~trace[1].s /\ trace[1].c = QuitClosure
  /\ Len(observers_) = 2
  /\ is_shutdown_ /\ runs = 1 /\ quit_main_message_loop_ = Null

\* ----------------------------------------------------------------- C20
\* The entries of will-quit rounds: notifications and ends of rounds.
WillQuitEntries ==
  {m \in 1..Len(trace) :
     trace[m].k \in {"notify", "round"} /\ trace[m].fn = "OnWillQuit"}

\* C20: a will-quit round is run by NotifyAndShutdown only, and when
\* NotifyAndShutdown was entered is_quiting_ was true, is_shutdown_ false,
\* and a before-quit round had ended without a veto with, since then, no
\* call of OnWindowCloseCancelled and no vetoed will-quit round or later
\* vetoed before-quit round.  Called by Quit, NotifyAndShutdown follows at
\* once on the before-quit round of that Quit, which no observer vetoed.
C20_VetoCheckpointsOrdered ==
  /\ \A m \in WillQuitEntries :
       LET c == RoundStart(m) IN
         /\ trace[c].fn = "NotifyAndShutdown"
         /\ trace[c].q /\ ~trace[c].s
         /\ trace[c].a
  /\ \A c \in Calls("NotifyAndShutdown") :
       (c > 1 /\ trace[c - 1].k = "ret") =>
         /\ trace[c - 1].fn = "HandleBeforeQuit" /\ trace[c - 1].v
         /\ trace[c - 2].k = "round" /\ trace[c - 2].fn = "OnBeforeQuit"
         /\ ~trace[c - 2].v

\* The windows have closed after a Quit nobody vetoed: the will-quit round
\* is running, the first observer has control.
C20_Witness ==
  /\ InObserver(State) /\ Top(State).fn = "OnWillQuit"
  /\ trace[1].fn = "OnWindowAllClosed" /\ prior = "quit"
  /\ Len(observers_) = 2 /\ nested = 0
  /\ is_quiting_ /\ ~is_shutdown_ /\ armed

====
